---- MODULE Spec2Model ----
(***************************************************************************)
(* Restaurant-review RAG service: the review store (a CSV file), the       *)
(* chunker, the Chroma index, the process-wide pipeline handle and the     *)
(* three HTTP operations (add_review, ask_question, health).               *)
(*                                                                         *)
(* Every endpoint is an `async def` without a single await, so a request   *)
(* handler runs to completion on the event loop: one action per handler.   *)
(* Calls into the embedder, the index engine and the language model are    *)
(* external; each handler takes a parameter saying at which of its         *)
(* external calls (if any) the first failure happens.                      *)
(*                                                                         *)
(* The review file is a sequence of tokens: the header line's text, the    *)
(* text of one data row, or a newline.  A token records whether its last   *)
(* character is a single byte or a multi-byte UTF-8 character, because     *)
(* add_review seeks one BYTE back from the end and then reads one          *)
(* CHARACTER.                                                              *)
(*                                                                         *)
(* The handle is built by the app's lifespan (app.py).  An ASGI server     *)
(* that runs the lifespan serves requests only after it succeeded and      *)
(* exits when it raised; a server or test client that does not run it      *)
(* serves the routes with the handle still None, the case get_rag_chain    *)
(* guards against.  Both deployments are modelled (lifespanOn).  The       *)
(* review file and the index directory outlive the process; a restart     *)
(* re-initialises the module state only.                                   *)
(***************************************************************************)
EXTENDS Integers, Sequences, FiniteSets, TLC

\* ------------------------------------------------------------- bounds
MaxRows == 2        \* data rows the store may hold (initial + added)
MaxInitRows == 2    \* data rows of the review file found at deployment
MaxPieces == 2      \* chunks the splitter makes of one review

\* ---------------------------------------------------- program constants
RETRIEVER_K == 5
MinRating == 0
MaxRating == 5

Ratings == {MinRating - 1, MinRating, MaxRating, MaxRating + 1}
TrailingNewlines == {0, 1, 2}      \* none, one, several

\* ------------------------------------------------------ the review file
Hdr == [t |-> "hdr", uid |-> 0, pieces |-> 0, tail |-> "ascii"]
NL == [t |-> "nl", uid |-> 0, pieces |-> 0, tail |-> "ascii"]
Row(u, p, tl) == [t |-> "row", uid |-> u, pieces |-> p, tail |-> tl]

\* CSV_COLUMNS: the header line pandas writes for the four columns.
CSV_COLUMNS == <<Hdr, NL>>

NoFile == [exists |-> FALSE, text |-> <<>>]

\* ensure_csv_exists: a missing file is created holding the header only.
ensure_csv_exists(csv) ==
    IF csv.exists THEN csv ELSE [exists |-> TRUE, text |-> CSV_COLUMNS]

\* pd.read_csv's line splitting: lines end at a newline, blank lines are
\* skipped (skip_blank_lines defaults to True).
RECURSIVE SplitLines(_, _, _)
SplitLines(text, cur, acc) ==
    IF text = <<>>
    THEN (IF cur = <<>> THEN acc ELSE Append(acc, cur))
    ELSE IF Head(text).t = "nl"
         THEN SplitLines(Tail(text), <<>>,
                         IF cur = <<>> THEN acc ELSE Append(acc, cur))
         ELSE SplitLines(Tail(text), Append(cur, Head(text)), acc)

\* pd.read_csv: the first non-blank line names the columns, every other one
\* is a data row.  No line at all raises EmptyDataError; a data line holding
\* more than one row's text has too many fields and raises ParserError.
\* cols is FALSE when the first line is not the header text (the lookups
\* row['Title'] of load_reviews_from_csv then raise KeyError).
read_csv(text) ==
    LET lines == SplitLines(text, <<>>, <<>>)
        data == IF lines = <<>> THEN <<>> ELSE Tail(lines)
    IN  [ok   |-> /\ lines # <<>>
                  /\ \A i \in 1..Len(data) : Len(data[i]) = 1,
         cols |-> lines # <<>> /\ lines[1] = <<Hdr>>,
         rows |-> [i \in 1..Len(data) |-> data[i][1]]]

\* Lines 198-210 of add_review_to_csv_and_db: open in 'a+', seek to the last
\* byte, read one character, write a newline unless it is one.  Reading from
\* the last byte of a multi-byte character raises UnicodeDecodeError.
FixTrailingNewline(text) ==
    IF Len(text) = 0 THEN [ok |-> TRUE, text |-> text]
    ELSE LET lastTok == text[Len(text)]
         IN  IF lastTok.t = "nl" THEN [ok |-> TRUE, text |-> text]
             ELSE IF lastTok.tail = "multi" THEN [ok |-> FALSE, text |-> text]
             ELSE [ok |-> TRUE, text |-> Append(text, NL)]

\* Line 222: the header is written when the file is missing or has size 0.
write_header(csv) == ~csv.exists \/ Len(csv.text) = 0

\* Lines 213-224: to_csv(mode="a", header=write_header, lineterminator="\n",
\* quoting=QUOTE_ALL): one quoted row (its last character is the closing
\* quote) and a newline, after the header if one is due.
AppendRow(csv, u, p) ==
    [exists |-> TRUE,
     text |-> csv.text \o (IF write_header(csv) THEN CSV_COLUMNS ELSE <<>>)
                       \o <<Row(u, p, "ascii"), NL>>]

new_review_csv_index_OffByOne(df) == Len(df.rows)

\* Line 229: new_review_csv_index = len(current_df) - 1
new_review_csv_index(df) == Len(df.rows) - 1

\* ------------------------------------------------- documents and chunks
DigitStr == <<"0", "1", "2", "3", "4", "5", "6", "7", "8", "9">>

RECURSIVE Digits(_)
Digits(n) ==
    IF n < 10 THEN <<DigitStr[n + 1]>>
    ELSE Digits(n \div 10) \o <<DigitStr[(n % 10) + 1]>>

\* Python's str() of an integer.
Str(n) == IF n < 0 THEN <<"-">> \o Digits(-n) ELSE Digits(n)

\* A Document: orig is metadata["original_csv_row_id"]; uid and pieces stand
\* for page_content (which review's text it is, and how many chunks the
\* splitter makes of a text of that length).
Document(orig, u, p) == [orig |-> orig, uid |-> u, pieces |-> p]

\* load_reviews_from_csv, lines 77-92: one Document per data row, its
\* original_csv_row_id the string of the row's DataFrame index.
load_reviews_from_csv(df) ==
    [i \in 1..Len(df.rows) |->
        Document(Str(i - 1), df.rows[i].uid, df.rows[i].pieces)]

\* text_splitter.split_documents: the chunks of all documents in one flat
\* list, each carrying its parent's metadata; piece is the chunk's position
\* in its own review.
RECURSIVE split_documents(_)
split_documents(docs) ==
    IF docs = <<>> THEN <<>>
    ELSE LET d == Head(docs)
         IN  [k \in 1..d.pieces |->
                 [orig |-> d.orig, uid |-> d.uid, piece |-> k - 1]]
             \o split_documents(Tail(docs))

\* Line 109: doc.id = f"review_chunk_{original_doc_id}_{i}"
ChunkId(orig, i) == <<"review_chunk_">> \o orig \o <<"_">> \o Str(i)

\* chunk_documents, lines 95-112: i enumerates the flat list of chunks.
chunk_documents(docs) ==
    LET ch == split_documents(docs)
    IN  [i \in 1..Len(ch) |->
            [id |-> ChunkId(ch[i].orig, i - 1), orig |-> ch[i].orig,
             uid |-> ch[i].uid, piece |-> ch[i].piece]]

\* ----------------------------------------------------------- the index
NoDb == [populated |-> FALSE, entries |-> {}]

add_documents_Dropped(entries, chunks) == entries

\* Chroma's add_documents / from_documents: an upsert keyed by id.
add_documents(entries, chunks) ==
    {e \in entries : \A i \in 1..Len(chunks) : chunks[i].id # e.id}
        \cup {chunks[i] : i \in 1..Len(chunks)}

db_exists_and_populated_Never(db) == FALSE

\* Line 121: os.path.exists(DB_LOCATION) and bool(os.listdir(DB_LOCATION))
db_exists_and_populated(db) == db.populated

\* The external failures get_vector_store can meet: "early" (the embedding
\* model or the Chroma constructor raises before anything is written),
\* and on the creating path "created" (from_documents has created the
\* directory and raises before inserting) and "persist" (the call of
\* persist() after from_documents raises).
OpenFails(db) ==
    IF db_exists_and_populated(db) THEN {"none", "early"}
    ELSE {"none", "early", "created", "persist"}

\* get_vector_store, lines 114-188.  err tells an external failure from an
\* exception of the code's own (read_csv or the column lookups raising).
get_vector_store(csv, db, f) ==
    IF f = "early" THEN [ok |-> FALSE, err |-> "external", csv |-> csv, db |-> db]
    ELSE IF db_exists_and_populated(db)
    THEN [ok |-> TRUE, err |-> "none", csv |-> csv, db |-> db]
    ELSE LET csv1 == ensure_csv_exists(csv)
             df == read_csv(csv1.text)
         IN  IF ~(df.ok /\ df.cols)
             THEN [ok |-> FALSE, err |-> "parse", csv |-> csv1, db |-> db]
             ELSE LET chunked_docs == chunk_documents(load_reviews_from_csv(df))
                      full == [populated |-> TRUE,
                               entries |-> add_documents(db.entries,
                                                         chunked_docs)]
                  IN  IF f = "created"
                      THEN [ok |-> FALSE, err |-> "external", csv |-> csv1,
                            db |-> [db EXCEPT !.populated = TRUE]]
                      ELSE [ok |-> f = "none",
                            err |-> IF f = "none" THEN "none" ELSE "external",
                            csv |-> csv1, db |-> full]

\* ------------------------------------------------- the pipeline handle
\* dependencies.py line 5: _rag_chain_instance = None
None == [gen |-> 0, retriever |-> FALSE, k |-> 0, combiner |-> FALSE]

\* The chain create_retrieval_chain returns: a retriever (k = RETRIEVER_K)
\* over the vector store and the document combiner; gen tells one chain
\* object of a process from another.
Chain(g) ==
    [gen |-> g, retriever |-> TRUE, k |-> RETRIEVER_K, combiner |-> TRUE]

\* setup_rag_chain, main.py lines 16-55.  f is an OpenFails value, or "late"
\* (a step after get_vector_store raises); get_llm_model raising before
\* get_vector_store leaves the same state as "early".
setup_rag_chain(csv, db, g, f) ==
    LET vs == get_vector_store(csv, db, IF f = "late" THEN "none" ELSE f)
    IN  [ok |-> vs.ok /\ f # "late",
         err |-> IF vs.ok /\ f = "late" THEN "external" ELSE vs.err,
         csv |-> vs.csv, db |-> vs.db, chain |-> Chain(g)]

\* set_rag_chain_instance, dependencies.py lines 7-10.
set_rag_chain_instance(chain) == chain

get_rag_chain_unchecked(h) == [status |-> 200, chain |-> h]

\* get_rag_chain, dependencies.py lines 12-19: HTTP 503 while the handle is
\* None, the handle otherwise.
get_rag_chain(h) ==
    IF h = None THEN [status |-> 503, chain |-> None]
    ELSE [status |-> 200, chain |-> h]

\* ----------------------------------------------------------- add_review
\* models.py line 7: rating: float = Field(..., ge=0.0, le=5.0)
ValidRating(r) == r >= MinRating /\ r <= MaxRating

\* The text written before the new row's own bytes.
BeforeRow(text) == SubSeq(text, 1, Len(text) - 2)

\* add_review_to_csv_and_db, lines 190-246.  f names the first external
\* failure: an OpenFails value, "insert" (add_documents raises) or none in
\* this function.  err is "decode" when line 209 raises UnicodeDecodeError and
\* "parse" when read_csv at line 227 raises.
add_review_to_csv_and_db(csv, db, u, p, f) ==
    LET csv1 == ensure_csv_exists(csv)
        fix == FixTrailingNewline(csv1.text)
        none == [ok |-> FALSE, err |-> "decode", csv |-> csv1, db |-> db,
                 appended |-> FALSE,
                 pre |-> <<>>, hdr |-> FALSE, indexed |-> FALSE, rowId |-> -1]
    IN  IF ~fix.ok THEN none
        ELSE
        LET csv2 == [exists |-> TRUE, text |-> fix.text]
            csv3 == AppendRow(csv2, u, p)
            df == read_csv(csv3.text)
            app == [none EXCEPT !.err = "parse", !.csv = csv3,
                                !.appended = TRUE,
                                !.pre = BeforeRow(csv3.text),
                                !.hdr = write_header(csv2)]
        IN  IF ~df.ok THEN app
            ELSE
            LET rid == new_review_csv_index(df)
                chunked_new_docs == chunk_documents(<<Document(Str(rid), u, p)>>)
                vs == get_vector_store(csv3, db,
                                       IF f \in OpenFails(db) THEN f ELSE "none")
                opened == [app EXCEPT !.err = vs.err, !.csv = vs.csv,
                                      !.db = vs.db, !.indexed = TRUE,
                                      !.rowId = rid]
            IN  IF ~vs.ok THEN opened
                ELSE IF f = "insert" THEN [opened EXCEPT !.err = "external"]
                ELSE [opened EXCEPT
                        !.ok = TRUE,
                        !.db = [populated |-> TRUE,
                                entries |-> add_documents(vs.db.entries,
                                                          chunked_new_docs)]]

HandleAfterAdd_ResetOnFailure(old, ok, chain) == IF ok THEN chain ELSE None

\* The handle after add_review_endpoint's try block (routes.py lines 18-33):
\* replaced only when every step before line 28 succeeded.
HandleAfterAdd(old, ok, chain) ==
    IF ok THEN set_rag_chain_instance(chain) ELSE old

AddStatus_AlwaysCreated(ok) == 201

\* The status add_review_endpoint answers with.
AddStatus(ok) == IF ok THEN 201 ELSE 500

\* add_review_endpoint, routes.py lines 11-33, for a validated body.
\* f = "chain": get_updated_rag_chain raises.
add_review_endpoint(csv, db, h, g, u, p, f) ==
    LET r == add_review_to_csv_and_db(csv, db, u, p, f)
        s == setup_rag_chain(r.csv, r.db, g,
                             IF f = "chain" THEN "late" ELSE "none")
        ok == r.ok /\ s.ok
    IN  [status |-> AddStatus(ok),
         csv |-> IF r.ok THEN s.csv ELSE r.csv,
         db |-> IF r.ok THEN s.db ELSE r.db,
         handle |-> HandleAfterAdd(h, ok, s.chain),
         ok |-> ok, err |-> IF r.ok THEN s.err ELSE r.err, r |-> r]

AddFails(db) == OpenFails(db) \cup {"insert", "chain"}

\* ---------------------------------------------------------------- state
VARIABLES
    csv,         \* the review file (CSV_FILE_PATH)
    db,          \* the index directory (DB_LOCATION) and its collection
    handle,      \* dependencies._rag_chain_instance
    proc,        \* "starting" (lifespan pending), "serving", "exited"
    lifespanOn,  \* whether the server runs the app's lifespan before serving
    builds,      \* chains built by this process
    nextUid,     \* the next review's identity
    assigned,    \* the row id each add_review call computed at line 229,
                 \* and whether the call answered 201
    clean,       \* no external failure has happened so far
    last         \* the most recent call: its outcome and the state it met

vars == <<csv, db, handle, proc, lifespanOn, builds, nextUid,
          assigned, clean, last>>

NoCall ==
    [op |-> "none", status |-> 0, fail |-> "none", rating |-> 0, uid |-> 0,
     pieces |-> 0, appended |-> FALSE, indexed |-> FALSE, rowId |-> -1,
     pre |-> <<>>, hdr |-> FALSE, csv0 |-> NoFile, db0 |-> NoDb,
     handle0 |-> None]

Call(op, status, f) ==
    [NoCall EXCEPT !.op = op, !.status = status, !.fail = f, !.csv0 = csv,
                   !.db0 = db, !.handle0 = handle]

\* The review files a deployment may start from: missing, empty, or the
\* header and up to MaxInitRows rows, ending without a newline, with one or
\* with several.  Only the file's last character is ever read on its own, so
\* only a last row that ends the file may end in a multi-byte character.
RECURSIVE Layout(_)
Layout(rows) ==
    IF rows = <<>> THEN <<Hdr>>
    ELSE Layout(SubSeq(rows, 1, Len(rows) - 1)) \o <<NL, rows[Len(rows)]>>

Newlines(n) == [i \in 1..n |-> NL]

InitRows(tl) ==
    UNION {{[i \in 1..k |-> Row(i, ps[i], IF i = k THEN tl ELSE "ascii")] :
                ps \in [1..k -> 1..MaxPieces]} :
           k \in (IF tl = "ascii" THEN 0 ELSE 1)..MaxInitRows}

InitFiles ==
    {NoFile, [exists |-> TRUE, text |-> <<>>]}
    \cup {[exists |-> TRUE, text |-> Layout(rows) \o Newlines(n)] :
            rows \in InitRows("ascii"), n \in TrailingNewlines}
    \cup {[exists |-> TRUE, text |-> Layout(rows)] : rows \in InitRows("multi")}

StartOf(on) == IF on THEN "starting" ELSE "serving"

Init ==
    /\ csv \in InitFiles
    /\ db = NoDb
    /\ handle = None
    /\ lifespanOn \in BOOLEAN
    /\ proc = StartOf(lifespanOn)
    /\ builds = 0
    /\ nextUid = Len(read_csv(csv.text).rows) + 1
    /\ assigned = {}
    /\ clean = TRUE
    /\ last = NoCall

\* -------------------------------------------------------------- actions
\* lifespan, app.py lines 9-27: build the chain and set the handle; any
\* failure is re-raised and the server exits.
Startup(f) ==
    /\ proc = "starting"
    /\ f \in OpenFails(db) \cup {"late"}
    /\ \E s \in {setup_rag_chain(csv, db, builds + 1, f)} :
           /\ f # "none" => s.err = "external"
           /\ csv' = s.csv
           /\ db' = s.db
           /\ handle' = IF s.ok THEN set_rag_chain_instance(s.chain) ELSE handle
           /\ proc' = IF s.ok THEN "serving" ELSE "exited"
           /\ builds' = IF s.ok THEN builds + 1 ELSE builds
           /\ last' = Call("startup", IF s.ok THEN 200 ELSE 500, f)
    /\ clean' = (clean /\ f = "none")
    /\ UNCHANGED <<lifespanOn, nextUid, assigned>>

\* A new process: module state is initialised afresh (dependencies.py
\* line 5), the files stay.
Restart ==
    /\ handle' = None
    /\ builds' = 0
    /\ proc' = StartOf(lifespanOn)
    /\ last' = Call("restart", 0, "none")
    /\ UNCHANGED <<csv, db, lifespanOn, nextUid, assigned, clean>>

\* POST /api/add_review.  A body whose rating is out of range is rejected
\* by the model's validation (422) before the endpoint runs.
AddReview(rating, p, f) ==
    /\ proc = "serving"
    /\ IF ~ValidRating(rating)
       THEN /\ f = "none" /\ p = 1
            /\ last' = [Call("add", 422, f) EXCEPT !.rating = rating]
            /\ UNCHANGED <<csv, db, handle, builds, nextUid, assigned, clean>>
       ELSE /\ nextUid <= MaxRows
            /\ f \in AddFails(db)
            /\ \E o \in {add_review_endpoint(csv, db, handle, builds + 1,
                                               nextUid, p, f)} :
                   /\ f # "none" => o.err = "external"
                   /\ csv' = o.csv
                   /\ db' = o.db
                   /\ handle' = o.handle
                   /\ builds' = IF o.ok THEN builds + 1 ELSE builds
                   /\ assigned' = IF o.r.indexed
                                  THEN assigned \cup
                                       {[uid |-> nextUid, rowId |-> o.r.rowId,
                                         pieces |-> p, ok |-> o.ok]}
                                  ELSE assigned
                   /\ last' = [Call("add", o.status, f) EXCEPT
                                 !.rating = rating, !.uid = nextUid,
                                 !.pieces = p, !.appended = o.r.appended,
                                 !.indexed = o.r.indexed, !.rowId = o.r.rowId,
                                 !.pre = o.r.pre, !.hdr = o.r.hdr]
            /\ nextUid' = nextUid + 1
            /\ clean' = (clean /\ f = "none")
    /\ UNCHANGED <<proc, lifespanOn>>

\* POST /api/ask_question, routes.py lines 35-54: 503 from the dependency
\* while the handle is None; otherwise the chain is invoked, and a failure of
\* the retriever or the language model ("llm") answers 500.
AskQuestion(f) ==
    /\ proc = "serving"
    /\ \E d \in {get_rag_chain(handle)} :
           IF d.status = 503
           THEN f = "none" /\ last' = Call("ask", 503, f)
           ELSE IF d.chain.retriever /\ d.chain.combiner
                THEN last' = Call("ask", IF f = "llm" THEN 500 ELSE 200, f)
                ELSE f = "none" /\ last' = Call("ask", 500, f)
    /\ UNCHANGED <<csv, db, handle, proc, lifespanOn, builds, nextUid,
                   assigned, clean>>

\* GET /health, app.py lines 37-44.
HealthCheck ==
    /\ proc = "serving"
    /\ last' = Call("health", get_rag_chain(handle).status, "none")
    /\ UNCHANGED <<csv, db, handle, proc, lifespanOn, builds, nextUid,
                   assigned, clean>>

Next ==
    \/ \E f \in {"none", "early", "created", "persist", "late"} : Startup(f)
    \/ Restart
    \/ \E rating \in Ratings, p \in 1..MaxPieces,
          f \in {"none", "early", "created", "persist", "insert", "chain"} :
            AddReview(rating, p, f)
    \/ \E f \in {"none", "llm"} : AskQuestion(f)
    \/ HealthCheck

Spec == Init /\ [][Next]_vars

\* ------------------------------------------------------------ properties
StoreRows == read_csv(csv.text).rows

IsChain(h) == h.gen >= 1 /\ h.retriever /\ h.k = RETRIEVER_K /\ h.combiner

\* The index entries holding piece k of review u's text.
Holding(entries, u, k) == {e \in entries : e.uid = u /\ e.piece = k}

AllPiecesIn(entries, u, p) ==
    \A k \in 0..(p - 1) : Holding(entries, u, k) # {}

NoPieceIn(entries, u) == \A e \in entries : e.uid # u

RowAt(u, rid) ==
    /\ rid + 1 \in 1..Len(StoreRows)
    /\ StoreRows[rid + 1].uid = u

EndsWithOneNewline(text) ==
    /\ Len(text) >= 1
    /\ text[Len(text)].t = "nl"
    /\ (Len(text) >= 2 => text[Len(text) - 1].t # "nl")

\* C1: while the handle is None every ask_question and every health request
\* answers 503, never another error or a success; once the handle is set,
\* health answers 200.
C1_NotReadyWhileUnset ==
    last.op \in {"ask", "health"} =>
        /\ last.handle0 = None => last.status = 503
        /\ (last.handle0 # None /\ last.op = "health") => last.status = 200
        /\ last.handle0 # None => last.status # 503

C1_Witness ==
    /\ last.op = "ask" /\ last.handle0 = None /\ last.status = 503
    /\ csv.exists

\* C2: add_review with a rating in [0,5] succeeds when no external call
\* fails; with a rating outside it is rejected and the review file, the index
\* and the handle are unchanged.
C2_RatingDecides ==
    last.op = "add" =>
        /\ (last.rating >= 0 /\ last.rating <= 5 /\ last.fail = "none")
              => last.status = 201
        /\ (last.rating < 0 \/ last.rating > 5)
              => /\ last.status = 422
                 /\ csv = last.csv0 /\ db = last.db0 /\ handle = last.handle0

\* C3: add_review appends, chunks, inserts and swaps the handle in that
\* order and answers 201 only after all of them: after a 201 the row is in
\* the store, its chunks are in the index and the handle is a new chain; a
\* failure at the insert leaves the append done and the handle unswapped, a
\* failure at the rebuild leaves append and insert done and the handle
\* unswapped; and every ask served after a successful add_review reads an
\* index holding that review's chunks.
C3_SuccessAfterAllSteps ==
    /\ (last.op = "add" /\ last.status = 201) =>
          /\ last.appended /\ RowAt(last.uid, last.rowId)
          /\ \A k \in 0..(last.pieces - 1) :
                \E e \in db.entries :
                    /\ e.uid = last.uid /\ e.piece = k
                    /\ e.id = ChunkId(Str(last.rowId), k)
          /\ IsChain(handle) /\ handle # last.handle0
    /\ (last.op = "add" /\ last.status = 500 /\ last.fail = "insert") =>
          /\ last.appended /\ RowAt(last.uid, last.rowId)
          /\ handle = last.handle0
    /\ (last.op = "add" /\ last.status = 500 /\ last.fail = "chain") =>
          /\ last.appended /\ RowAt(last.uid, last.rowId)
          /\ AllPiecesIn(db.entries, last.uid, last.pieces)
          /\ handle = last.handle0
    /\ (last.op = "ask" /\ last.status # 503) =>
          \A a \in assigned :
              a.ok => AllPiecesIn(last.db0.entries, a.uid, a.pieces)

C3_Witness ==
    /\ last.op = "ask" /\ last.status = 200
    /\ \E a \in assigned : a.ok /\ a.pieces = 2

\* C4: the add_review calls the process serves, in whatever order it serves
\* them, compute pairwise distinct row ids, each the position of the call's
\* own row among the store's data rows.
C4_DistinctRowIds ==
    /\ \A a, b \in assigned : a.uid # b.uid => a.rowId # b.rowId
    /\ \A a \in assigned : RowAt(a.uid, a.rowId)

C4_Witness == \E a, b \in assigned : a.uid # b.uid

\* C5: once set, the handle a request reads is a complete chain, the one
\* from before an add_review or the one it built, never None and never a
\* partly built one: a request that met a set handle leaves a set handle.
C5_HandleNeverHalfBuilt ==
    /\ handle = None \/ IsChain(handle)
    /\ (last.op \in {"add", "ask", "health"} /\ last.handle0 # None) =>
          /\ IsChain(last.handle0)
          /\ IsChain(handle)
          /\ handle = last.handle0 \/ (last.op = "add" /\ last.status = 201)
    /\ (last.op \in {"ask", "health"} /\ last.handle0 # None) =>
          last.status # 503

C5_Witness ==
    /\ last.op = "add" /\ last.status = 500 /\ last.appended
    /\ last.handle0 # None /\ handle = last.handle0
    /\ handle.gen >= 2

\* C6: get_vector_store on a populated index directory loads it and inserts
\* nothing, so opening it again over an unmodified store leaves the number
\* of entries as the first call left it; full ingestion runs only when the
\* directory is missing or empty, and then indexes every chunk of every row.
C6_OpenIsIdempotent ==
    last.op = "startup" =>
        /\ last.db0.populated => (db = last.db0 /\ csv = last.csv0)
        /\ (~last.db0.populated /\ last.status = 200) =>
              /\ db.populated
              /\ \A i \in 1..Len(StoreRows) :
                    AllPiecesIn(db.entries, StoreRows[i].uid,
                                StoreRows[i].pieces)
              /\ Cardinality(db.entries)
                    = Len(split_documents(load_reviews_from_csv(
                                              read_csv(csv.text))))

C6_Witness ==
    /\ last.op = "startup" /\ last.status = 200
    /\ last.db0.populated /\ Cardinality(last.db0.entries) >= 2
    /\ \E a \in assigned : a.ok

\* C7 (as claimed): when the insert or a later step fails after the append,
\* the call answers 500, the row stays in the store, no chunk of it is in
\* the index and the handle is the one from before the call.
C7_NoChunkAfterLateFailure ==
    (last.op = "add" /\ last.fail \in {"insert", "chain"}) =>
        /\ last.status = 500
        /\ last.appended /\ RowAt(last.uid, last.rowId)
        /\ NoPieceIn(db.entries, last.uid)
        /\ handle = last.handle0

\* C7 (amended): when the insert or a later step fails after the append, the
\* call answers 500, never 201, the row stays in the store and the handle is
\* the one from before the call; the index holds no chunk of the row only
\* when the insert itself failed on an index that existed before the call;
\* when the rebuild after the insert failed, or when the call itself created
\* the index by full ingestion of the store, the row's chunks are in it.
C7_NoCompensation ==
    (last.op = "add" /\ last.fail \in {"insert", "chain"}) =>
        /\ last.status = 500
        /\ last.appended /\ RowAt(last.uid, last.rowId)
        /\ handle = last.handle0
        /\ (last.fail = "insert" /\ last.db0.populated)
              => (NoPieceIn(db.entries, last.uid) /\ db = last.db0)
        /\ (last.fail = "chain" \/ ~last.db0.populated)
              => AllPiecesIn(db.entries, last.uid, last.pieces)

C7_Witness ==
    /\ last.op = "add" /\ last.fail = "insert" /\ last.status = 500
    /\ last.db0.populated /\ last.handle0 # None
    /\ RowAt(last.uid, last.rowId)

\* C8: whatever the review file held (missing, empty, ending without a
\* newline, with one, with several), add_review leaves it ending with
\* exactly one newline before it writes the new row, writes the header only
\* if the file was missing or empty, and adds exactly one data row.
C8_OneNewlineThenOneRow ==
    (last.op = "add" /\ last.status # 422) =>
        /\ EndsWithOneNewline(last.pre)
        /\ last.hdr => (~last.csv0.exists \/ last.csv0.text = <<>>)
        /\ Len(StoreRows) = Len(read_csv(last.csv0.text).rows) + 1
        /\ StoreRows[Len(StoreRows)].uid = last.uid

\* C9: every chunk's id is made of its review's row id and the chunk's
\* position in that review's own chunk list, and ids are unique in the index.
C9_IdFromRowAndOwnPosition ==
    /\ \A e \in db.entries : e.id = ChunkId(e.orig, e.piece)
    /\ \A e1, e2 \in db.entries : e1.id = e2.id => e1 = e2

\* C10: every review row of the store has each of its chunks in the index at
\* most once, and exactly once when the index exists and no external call
\* has failed.
C10_EachChunkIndexedOnce ==
    \A i \in 1..Len(StoreRows) :
        \A k \in 0..(StoreRows[i].pieces - 1) :
            LET n == Cardinality(Holding(db.entries, StoreRows[i].uid, k))
            IN  /\ n <= 1
                /\ (clean /\ db.populated) => n = 1

====
